---- MODULE Spec2Model ----
(***************************************************************************)
(* worktimer: the countdown hook useCountdown, the two TimerWITA           *)
(* components (part_001 with the Saturday/Sunday policy, part_002          *)
(* without it) and the WorkTimerApp wrapper with its persisted             *)
(* configuration and edit modal (part_000).                                *)
(*                                                                         *)
(* A Date is an integer: the whole seconds of WITA wall-clock time since   *)
(* 00:00:00 of a Sunday (day 0).  nowInTZ builds its Date from the         *)
(* year..second parts only, so every Date of the program is a whole        *)
(* second; getTime() is that number times 1000.  The browser's own zone    *)
(* is taken to have no clock change in the modelled days, so setHours is   *)
(* plain arithmetic on the calendar day.                                   *)
(***************************************************************************)
EXTENDS Integers, Sequences, FiniteSets, TLC

VARIABLES
    impl,       \* which TimerWITA is mounted: "part_001" or "part_002"
    clock,      \* the wall clock in WITA (a Date)
    mounted,    \* TimerWITA is mounted
    restAt,     \* TimerWITA props
    homeAt,
    state,      \* useCountdown's useState value, per hook
    deps,       \* the [hours, minutes, label] of the effect last run, per hook
    timerRef,   \* useCountdown's timerRef.current, per hook
    intervals,  \* the live window.setInterval callbacks
    storage,    \* localStorage under STORAGE_KEY
    loading,    \* WorkTimerApp state
    showModal,
    userCfg,
    draft,      \* Modal state: rest, home
    err,
    crashed     \* a render of WorkTimerApp threw

timerVars == <<impl, clock, mounted, restAt, homeAt, state, deps, timerRef,
               intervals>>
appVars == <<storage, loading, showModal, userCfg, draft, err, crashed>>
vars == <<timerVars, appVars>>

----------------------------------------------------------------------------
\* Bounds of the model
LastDay == 7
MaxSkip == 2
MaxTimerIds == 3

\* Program constants
SecPerDay == 86400
MsPerSec == 1000
startHour == 8
SaturdayHour == 14

Max(a, b) == IF a >= b THEN a ELSE b
Min(a, b) == IF a <= b THEN a ELSE b

----------------------------------------------------------------------------
\* Date
getTime(d) == d * MsPerSec
DayOf(d) == d \div SecPerDay
toDateString(d) == DayOf(d)
getDay(d) == DayOf(d) % 7
setHours(d, h, m) == DayOf(d) * SecPerDay + h * 3600 + m * 60

\* (mutant) the next occurrence of the time, not today's
targetNextOccurrence(hours, minutes, baseDate) ==
    IF setHours(baseDate, hours, minutes) <= baseDate
    THEN setHours(baseDate, hours, minutes) + SecPerDay
    ELSE setHours(baseDate, hours, minutes)

targetForDate(hours, minutes, baseDate) == setHours(baseDate, hours, minutes)

Pad2(n) == IF n < 10 THEN "0" \o ToString(n) ELSE ToString(n)

\* (mutant) the minutes taken before the hours are removed
formatDiffNoCarry(ms) ==
    LET total0 == Max(0, ms \div MsPerSec)
        days == total0 \div SecPerDay
        total1 == total0 % SecPerDay
        h == total1 \div 3600
        m == total1 \div 60
        s == total1 % 60
    IN [text |-> Pad2(h) \o ":" \o Pad2(m) \o ":" \o Pad2(s), days |-> days]

formatDiff(ms) ==
    LET total0 == Max(0, ms \div MsPerSec)
        days == total0 \div SecPerDay
        total1 == total0 % SecPerDay
        h == total1 \div 3600
        total2 == total1 % 3600
        m == total2 \div 60
        s == total2 % 60
    IN [text |-> Pad2(h) \o ":" \o Pad2(m) \o ":" \o Pad2(s), days |-> days]

\* A percentage is an exact fraction n/d in lowest terms, d >= 1.
RECURSIVE GCD(_, _)
GCD(a, b) == IF b = 0 THEN a ELSE GCD(b, a % b)

\* Math.max(0, Math.min(100, num / den)), den # 0
ClampPct(num, den) ==
    LET n1 == IF den < 0 THEN 0 - num ELSE num
        d1 == IF den < 0 THEN 0 - den ELSE den
    IN IF n1 <= 0 THEN [n |-> 0, d |-> 1]
       ELSE IF n1 >= 100 * d1 THEN [n |-> 100, d |-> 1]
       ELSE LET g == GCD(n1, d1) IN [n |-> n1 \div g, d |-> d1 \div g]

Pct(k) == [n |-> k, d |-> 1]

\* (mutant) neither the remaining time nor the quotient is clamped
progressToTargetUnclamped(target, witaNow) ==
    LET dayStart == setHours(witaNow, startHour, 0)
        span == target - dayStart
        done == target - witaNow
        den == IF span = 0 THEN 1 ELSE span
    IN IF den < 0 THEN [n |-> 0 - 100 * (span - done), d |-> 0 - den]
       ELSE [n |-> 100 * (span - done), d |-> den]

\* progressToTarget reads the clock itself: witaNow is that second reading.
\* The times are whole seconds, so the quotient is taken over seconds
\* (span || 1 only matters when span is 0, and then the numerator is 0).
progressToTarget(target, witaNow) ==
    LET dayStart == IF toDateString(target) # toDateString(witaNow)
                    THEN setHours(target, startHour, 0)
                    ELSE setHours(witaNow, startHour, 0)
        span == target - dayStart
        done == Max(0, Min(target - witaNow, span))
        den == IF span = 0 THEN 1 ELSE span
        pct == ClampPct(100 * (span - done), den)
    IN IF den # 0 THEN pct ELSE Pct(0)

\* today.toLocaleString("id-ID", {weekday, day, month, hour, minute})
toLocaleString(d) ==
    "hari " \o ToString(DayOf(d)) \o " pukul "
        \o Pad2((d % SecPerDay) \div 3600) \o "." \o Pad2((d % 3600) \div 60)

----------------------------------------------------------------------------
\* useCountdown

\* the useState initialiser
initialState(cfg, now, witaNow) ==
    LET today == targetForDate(cfg.hours, cfg.minutes, now)
        isCompleted == getTime(now) >= getTime(today)
        text == formatDiff(Max(0, getTime(today) - getTime(now))).text
    IN [nowWita |-> now,
        targetToday |-> today,
        diffText |-> IF isCompleted THEN "00:00:00" ELSE text,
        status |-> IF isCompleted THEN cfg.label \o " selesai"
                   ELSE "Target hari ini, " \o toLocaleString(today),
        progress |-> IF isCompleted THEN Pct(100)
                     ELSE progressToTarget(today, witaNow),
        isCompleted |-> isCompleted]

\* (mutant) completed only after the target, not at it
tickStrict(cfg, now, witaNow) ==
    LET today == targetForDate(cfg.hours, cfg.minutes, now)
        isCompleted == getTime(now) > getTime(today)
    IN IF isCompleted
       THEN [nowWita |-> now,
             targetToday |-> today,
             diffText |-> "00:00:00",
             status |-> cfg.label \o " selesai, hitung ulang setelah 00:00 WITA",
             progress |-> Pct(100),
             isCompleted |-> isCompleted]
       ELSE [nowWita |-> now,
             targetToday |-> today,
             diffText |-> formatDiff(getTime(today) - getTime(now)).text,
             status |-> "Target hari ini, " \o toLocaleString(today),
             progress |-> progressToTarget(today, witaNow),
             isCompleted |-> isCompleted]

\* what tick() hands to setState
tick(cfg, now, witaNow) ==
    LET today == targetForDate(cfg.hours, cfg.minutes, now)
        isCompleted == getTime(now) >= getTime(today)
    IN IF isCompleted
       THEN [nowWita |-> now,
             targetToday |-> today,
             diffText |-> "00:00:00",
             status |-> cfg.label \o " selesai, hitung ulang setelah 00:00 WITA",
             progress |-> Pct(100),
             isCompleted |-> isCompleted]
       ELSE [nowWita |-> now,
             targetToday |-> today,
             diffText |-> formatDiff(getTime(today) - getTime(now)).text,
             status |-> "Target hari ini, " \o toLocaleString(today),
             progress |-> progressToTarget(today, witaNow),
             isCompleted |-> isCompleted]

----------------------------------------------------------------------------
\* TimerWITA

Hooks == {"istirahat", "pulang"}

DEFAULT_REST == [hours |-> 11, minutes |-> 30, label |-> "Waktunya istirahat"]
DEFAULT_HOME == [hours |-> 16, minutes |-> 0, label |-> "Waktunya pulang"]

\* The times of day the props are drawn from
RestTimes == {<<0, 0>>, <<8, 0>>, <<11, 30>>}
HomeTimes == {<<7, 0>>, <<16, 0>>, <<23, 59>>}
CfgTimes == RestTimes \cup HomeTimes
RestCfgs == {[DEFAULT_REST EXCEPT !.hours = t[1], !.minutes = t[2]] : t \in RestTimes}
HomeCfgs == {[DEFAULT_HOME EXCEPT !.hours = t[1], !.minutes = t[2]] : t \in HomeTimes}

\* The instants the clock is read at: around midnight, the 08:00 anchor, the
\* Saturday hour and every target, on each modelled day.  The days start on
\* a Friday (day 5); day 7 is a Sunday.
Marks == {t[1] * 3600 + t[2] * 60 : t \in CfgTimes}
             \cup {startHour * 3600, SaturdayHour * 3600}
GridSecs == ({0, 1, SecPerDay - 1} \cup {t + d : t \in Marks, d \in {-1, 0, 1}})
                \cap (0 .. SecPerDay - 1)
Instants == {day * SecPerDay + g : day \in 5 .. LastDay, g \in GridSecs}
\* the place of an instant among them
Place == [g \in Instants |-> Cardinality({x \in Instants : x < g})]

\* The reading progressToTarget takes falls in the same second as tick's
\* or in the next one.
SecondReading(now) == {now, now + 1}

NoState == [nowWita |-> 0, targetToday |-> 0, diffText |-> "", status |-> "",
            progress |-> Pct(0), isCompleted |-> FALSE]
NoDeps == [hours |-> -1, minutes |-> -1, label |-> ""]
null == 0

\* part_001: the home time in effect; part_002 passes homeAt as it is
effectiveHome(im, istirahat, home) ==
    IF im = "part_001" /\ getDay(istirahat.nowWita) = 6
    THEN [home EXCEPT !.hours = SaturdayHour, !.minutes = 0,
                      !.label = home.label \o " (Sabtu)"]
    ELSE home

\* the TimeCfg each hook is called with in the current render
cfgOf(s) ==
    IF s = "istirahat" THEN restAt
    ELSE effectiveHome(impl, state["istirahat"], homeAt)

\* the effect of hook s is due: its deps differ from those of its last run
Pending(s) == mounted /\ deps[s] # cfgOf(s)
AnyPending == \E s \in Hooks : Pending(s)

clearInterval(ivs, id) == {iv \in ivs : iv.id # id}

\* window.setInterval returns an id greater than zero that no live timer
\* has; the least such id stands for it.
FreeIds(ivs) == (1 .. MaxTimerIds) \ {iv.id : iv \in ivs}
setInterval(ivs) == CHOOSE i \in FreeIds(ivs) : \A j \in FreeIds(ivs) : i <= j

\* (mutant) a cleanup that clears nothing
cleanupKeeps(ivs, ref) == ivs

\* the effect's cleanup
cleanup(ivs, ref) == IF ref # null THEN clearInterval(ivs, ref) ELSE ivs

\* One run of the effect of hook s with cfg: the cleanup of the run before
\* it, tick(), setInterval.  H holds the hooks' state.
RunEffect(H, s, cfg, witaNow) ==
    LET ivs == IF H.deps[s] # NoDeps THEN cleanup(H.intervals, H.timerRef[s])
               ELSE H.intervals
        id == setInterval(ivs)
    IN [state |-> [H.state EXCEPT ![s] = tick(cfg, clock, witaNow)],
        deps |-> [H.deps EXCEPT ![s] = cfg],
        timerRef |-> [H.timerRef EXCEPT ![s] = id],
        intervals |-> ivs \cup {[id |-> id, hook |-> s, cfg |-> cfg]},
        ok |-> H.ok /\ FreeIds(ivs) # {}]

\* First render: both useState initialisers run; the effects are due.
Mount(r, h) ==
    /\ ~mounted
    /\ \E w1, w2 \in SecondReading(clock) :
          LET istirahat == initialState(r, clock, w1)
              pulang == initialState(effectiveHome(impl, istirahat, h), clock, w2)
          IN state' = [s \in Hooks |-> IF s = "istirahat" THEN istirahat ELSE pulang]
    /\ mounted' = TRUE
    /\ restAt' = r
    /\ homeAt' = h
    /\ UNCHANGED <<impl, clock, deps, timerRef, intervals, appVars>>

\* React runs the effects that are due, istirahat's before pulang's, each
\* with the TimeCfg of the render that was committed.
FlushEffects ==
    /\ AnyPending
    /\ \E w1, w2 \in SecondReading(clock) :
          LET H0 == [state |-> state, deps |-> deps, timerRef |-> timerRef,
                     intervals |-> intervals, ok |-> TRUE]
              H1 == IF Pending("istirahat")
                    THEN RunEffect(H0, "istirahat", cfgOf("istirahat"), w1) ELSE H0
              H2 == IF Pending("pulang")
                    THEN RunEffect(H1, "pulang", cfgOf("pulang"), w2) ELSE H1
          IN /\ H2.ok
             /\ state' = H2.state
             /\ deps' = H2.deps
             /\ timerRef' = H2.timerRef
             /\ intervals' = H2.intervals
    /\ UNCHANGED <<impl, clock, mounted, restAt, homeAt, appVars>>

\* A live interval fires.  Effects that are due run before the next render,
\* so a callback's snapshot is committed only when none is due.
Tick(iv) ==
    /\ iv \in intervals
    /\ ~AnyPending
    /\ \E w \in SecondReading(clock) :
          state' = IF mounted
                   THEN [state EXCEPT ![iv.hook] = tick(iv.cfg, clock, w)]
                   ELSE state
    /\ UNCHANGED <<impl, clock, mounted, restAt, homeAt, deps, timerRef,
                   intervals, appVars>>

\* The parent renders TimerWITA with other props.
SetProps(r, h) ==
    /\ mounted
    /\ ~AnyPending
    /\ <<r, h>> # <<restAt, homeAt>>
    /\ restAt' = r
    /\ homeAt' = h
    /\ UNCHANGED <<impl, clock, mounted, state, deps, timerRef, intervals,
                   appVars>>

\* Unmount: the cleanup of every effect that has run.
Unmount ==
    /\ mounted
    /\ mounted' = FALSE
    /\ intervals' = {iv \in intervals :
                        \A s \in Hooks :
                            deps[s] # NoDeps => iv \in cleanup(intervals, timerRef[s])}
    /\ state' = [s \in Hooks |-> NoState]
    /\ deps' = [s \in Hooks |-> NoDeps]
    /\ timerRef' = [s \in Hooks |-> null]
    /\ UNCHANGED <<impl, clock, restAt, homeAt, appVars>>

\* Time passes to the next modelled instant.  A mounted hook misses at most
\* MaxSkip of them between two of its snapshots.
Lag(now) == Place[clock] - Place[now]

AdvanceClock ==
    /\ mounted => \A s \in Hooks : Lag(state[s].nowWita) < MaxSkip
    /\ \E g \in Instants : Place[g] = Place[clock] + 1 /\ clock' = g
    /\ UNCHANGED <<impl, mounted, restAt, homeAt, state, deps, timerRef,
                   intervals, appVars>>

\* What TimerWITA renders
formatBadgeTime(hours, minutes) == Pad2(hours) \o ":" \o Pad2(minutes) \o " WITA"

Card(title, badge, data) ==
    [holiday |-> FALSE,
     title |-> IF data.isCompleted THEN title \o " - Selesai" ELSE title,
     badge |-> badge,
     text |-> data.diffText,
     status |-> data.status,
     width |-> IF data.isCompleted THEN Pct(100) ELSE data.progress]

HolidayCard ==
    [holiday |-> TRUE,
     title |-> "Hari Minggu - Libur",
     badge |-> "WITA",
     text |-> "00:00:00",
     status |-> "Selamat beristirahat! Countdown kerja akan kembali besok (Senin).",
     width |-> Pct(100)]

View(im, st, r, h) ==
    LET eff == effectiveHome(im, st["istirahat"], h)
        isSunday == im = "part_001" /\ getDay(st["istirahat"].nowWita) = 0
        restBadge == IF im = "part_001" THEN formatBadgeTime(r.hours, r.minutes)
                     ELSE "11:30 WITA"
        homeBadge == IF im = "part_001" THEN formatBadgeTime(eff.hours, eff.minutes)
                     ELSE "16:00 WITA"
    IN [sundayBadge |-> isSunday,
        header |-> st["istirahat"].nowWita,
        cards |-> IF isSunday THEN <<HolidayCard, HolidayCard>>
                  ELSE <<Card("Menuju Istirahat", restBadge, st["istirahat"]),
                         Card("Menuju Pulang", homeBadge, st["pulang"])>>,
        footer |-> IF isSunday THEN "Hari Minggu dianggap libur."
                   ELSE "Setelah target lewat, status tetap Selesai sampai hari berganti."]

\* The TimeCfg the snapshot of hook s was computed with: that of the effect
\* last run, or, before the first run, that of the render.
EvalCfg(s) == IF deps[s] # NoDeps THEN deps[s] ELSE cfgOf(s)

----------------------------------------------------------------------------
\* WorkTimerApp and Modal (part_000)

\* A string is the sequence of its characters.  A value read from the
\* parsed JSON is a string, undefined, a number or an array, with chars what
\* String(value) gives.
Str(cs) == [type |-> "string", chars |-> cs]
Undefined == [type |-> "undefined",
              chars |-> <<"u", "n", "d", "e", "f", "i", "n", "e", "d">>]
Digits == {"0", "1", "2", "3", "4", "5", "6", "7", "8", "9"}
DigitVal(c) == CHOOSE k \in 0 .. 9 : ToString(k) = c

T1130 == Str(<<"1", "1", ":", "3", "0">>)
T1600 == Str(<<"1", "6", ":", "0", "0">>)
T0915 == Str(<<"0", "9", ":", "1", "5">>)
T9999 == Str(<<"9", "9", ":", "9", "9">>)
T700 == Str(<<"7", ":", "0", "0">>)
TEmpty == Str(<<>>)
N1130 == [type |-> "number", chars |-> <<"1", "1", "3", "0">>]
A0915 == [type |-> "array", chars |-> <<"0", "9", ":", "1", "5">>]

\* /^\d{2}:\d{2}$/.test(t)
isValidTimeStr(t) ==
    LET cs == t.chars
    IN /\ Len(cs) = 5
       /\ cs[1] \in Digits
       /\ cs[2] \in Digits
       /\ cs[3] = ":"
       /\ cs[4] \in Digits
       /\ cs[5] \in Digits

\* t.split(":")
RECURSIVE splitFrom(_, _, _)
splitFrom(cs, i, piece) ==
    IF i > Len(cs) THEN <<piece>>
    ELSE IF cs[i] = ":" THEN <<piece>> \o splitFrom(cs, i + 1, <<>>)
    ELSE splitFrom(cs, i + 1, Append(piece, cs[i]))
split(cs) == splitFrom(cs, 1, <<>>)

\* parseInt(x, 10): leading blanks, a sign, then the digits up to the first
\* other character; NaN when there is no digit.
NaN == [finite |-> FALSE, v |-> 0]
RECURSIVE digitsFrom(_, _, _, _)
digitsFrom(cs, i, acc, seen) ==
    IF i <= Len(cs) /\ cs[i] \in Digits
    THEN digitsFrom(cs, i + 1, acc * 10 + DigitVal(cs[i]), TRUE)
    ELSE [finite |-> seen, v |-> IF seen THEN acc ELSE 0]
RECURSIVE parseIntFrom(_, _)
parseIntFrom(cs, i) ==
    IF i <= Len(cs) /\ cs[i] = " " THEN parseIntFrom(cs, i + 1)
    ELSE IF i <= Len(cs) /\ cs[i] = "-"
         THEN LET r == digitsFrom(cs, i + 1, 0, FALSE)
              IN [finite |-> r.finite, v |-> 0 - r.v]
    ELSE IF i <= Len(cs) /\ cs[i] = "+" THEN digitsFrom(cs, i + 1, 0, FALSE)
    ELSE digitsFrom(cs, i, 0, FALSE)
parseInt(cs) == parseIntFrom(cs, 1)

\* (mutant) the parsed numbers are not clamped to 0..23 and 0..59
parseTimeToCfgUnclamped(t, label) ==
    LET parts == split(t.chars)
        h == parseInt(parts[1])
        m == IF Len(parts) >= 2 THEN parseInt(parts[2]) ELSE NaN
    IN [hours |-> IF h.finite THEN h.v ELSE 0,
        minutes |-> IF m.finite THEN m.v ELSE 0,
        label |-> label]

parseTimeToCfg(t, label) ==
    LET parts == split(t.chars)
        h == parseInt(parts[1])
        m == IF Len(parts) >= 2 THEN parseInt(parts[2]) ELSE NaN
        hours == IF h.finite THEN Min(23, Max(0, h.v)) ELSE 0
        minutes == IF m.finite THEN Min(59, Max(0, m.v)) ELSE 0
    IN [hours |-> hours, minutes |-> minutes, label |-> label]

\* What localStorage holds under STORAGE_KEY, by what getItem and JSON.parse
\* make of it: "unavailable" (getItem throws), "none" (null), "empty" (the
\* empty string), "garbage" (JSON.parse throws), "json-null", "json-scalar"
\* (a value without fields) and "json-object" with its rest and home.
Raw(kind, rest, home) == [kind |-> kind, rest |-> rest, home |-> home]
StoredFields == {Undefined, N1130, A0915, T0915, T9999, T700}
StorageValues ==
    {Raw(k, Undefined, Undefined) :
        k \in {"unavailable", "none", "empty", "garbage", "json-null", "json-scalar"}}
    \cup {Raw("json-object", r, h) : r \in StoredFields, h \in StoredFields}

\* What the user can put in an input of the modal
DraftValues == {TEmpty, T0915, T1600, T9999, T700}

DefaultUserCfg == [rest |-> T1130, home |-> T1600]
ErrFormat == "Format waktu harus HH:MM (24 jam)."

\* the try block of the load effect throws
loadThrows(raw) == raw.kind \in {"unavailable", "garbage", "json-null"}
\* if (raw)
rawTruthy(raw) == raw.kind \notin {"none", "empty"}

\* the userCfg and showModal the load effect leaves
loadedCfg(raw) ==
    IF loadThrows(raw) THEN DefaultUserCfg
    ELSE IF rawTruthy(raw)
         THEN [rest |-> IF isValidTimeStr(raw.rest) THEN raw.rest ELSE T1130,
               home |-> IF isValidTimeStr(raw.home) THEN raw.home ELSE T1600]
    ELSE DefaultUserCfg
\* (mutant) the catch block does not open the modal
loadedShowModalQuiet(raw) == ~loadThrows(raw) /\ ~rawTruthy(raw)

loadedShowModal(raw) ==
    IF loadThrows(raw) THEN TRUE
    ELSE IF rawTruthy(raw) THEN FALSE
    ELSE TRUE

\* WorkTimerApp's render calls parseTimeToCfg(userCfg.rest), (userCfg.home):
\* split is a method of strings only.
renderThrows(cfg) == cfg.rest.type # "string" \/ cfg.home.type # "string"

\* The props WorkTimerApp hands to TimerWITA
restAtProp == parseTimeToCfg(userCfg.rest, "Waktunya istirahat")
homeAtProp == parseTimeToCfg(userCfg.home, "Waktunya pulang")

\* The load effect; the render after it mounts TimerWITA and the Modal,
\* whose state starts from initial = userCfg.
LoadEffect ==
    /\ loading
    /\ userCfg' = loadedCfg(storage)
    /\ showModal' = loadedShowModal(storage)
    /\ loading' = FALSE
    /\ crashed' = renderThrows(userCfg')
    /\ draft' = userCfg'
    /\ err' = ""
    /\ UNCHANGED <<storage, timerVars>>

\* "Ubah jam"; the Modal's effect on [initial, isOpen] resets its state
OpenModal ==
    /\ ~loading /\ ~crashed
    /\ ~showModal
    /\ showModal' = TRUE
    /\ draft' = userCfg
    /\ err' = ""
    /\ UNCHANGED <<storage, loading, userCfg, crashed, timerVars>>

\* onChange of the two inputs
SetRest(v) ==
    /\ ~loading /\ ~crashed
    /\ showModal
    /\ draft' = [draft EXCEPT !.rest = v]
    /\ UNCHANGED <<storage, loading, showModal, userCfg, err, crashed, timerVars>>

SetHome(v) ==
    /\ ~loading /\ ~crashed
    /\ showModal
    /\ draft' = [draft EXCEPT !.home = v]
    /\ UNCHANGED <<storage, loading, showModal, userCfg, err, crashed, timerVars>>

\* localStorage.setItem throws where getItem does
setItemThrows(raw) == raw.kind = "unavailable"

\* "Simpan": Modal.handleSave, then WorkTimerApp.handleSave and onClose
ModalSave ==
    /\ ~loading /\ ~crashed
    /\ showModal
    /\ IF ~isValidTimeStr(draft.rest) \/ ~isValidTimeStr(draft.home)
       THEN /\ err' = ErrFormat
            /\ UNCHANGED <<storage, showModal, userCfg, draft>>
       ELSE /\ userCfg' = [rest |-> draft.rest, home |-> draft.home]
            /\ IF setItemThrows(storage)
               THEN UNCHANGED <<storage, showModal>>
               ELSE /\ storage' = Raw("json-object", draft.rest, draft.home)
                    /\ showModal' = FALSE
            /\ draft' = userCfg'
            /\ err' = ""
    /\ UNCHANGED <<loading, crashed, timerVars>>

\* "Batal"
ModalCancel ==
    /\ ~loading /\ ~crashed
    /\ showModal
    /\ showModal' = FALSE
    /\ draft' = userCfg
    /\ err' = ""
    /\ UNCHANGED <<storage, loading, userCfg, crashed, timerVars>>

\* The page is loaded again: every useState starts over, storage stays.
Reload ==
    /\ ~loading
    /\ loading' = TRUE
    /\ showModal' = FALSE
    /\ userCfg' = DefaultUserCfg
    /\ draft' = DefaultUserCfg
    /\ err' = ""
    /\ crashed' = FALSE
    /\ UNCHANGED <<storage, timerVars>>

----------------------------------------------------------------------------
\* Specifications

TimerInit ==
    /\ impl \in {"part_001", "part_002"}
    /\ clock = 5 * SecPerDay
    /\ mounted = FALSE
    /\ restAt = DEFAULT_REST
    /\ homeAt = DEFAULT_HOME
    /\ state = [s \in Hooks |-> NoState]
    /\ deps = [s \in Hooks |-> NoDeps]
    /\ timerRef = [s \in Hooks |-> null]
    /\ intervals = {}

AppInit ==
    /\ loading = TRUE
    /\ showModal = FALSE
    /\ userCfg = DefaultUserCfg
    /\ draft = DefaultUserCfg
    /\ err = ""
    /\ crashed = FALSE

\* TimerWITA rendered with props of its parent's choosing
Init ==
    /\ TimerInit
    /\ AppInit
    /\ storage = Raw("none", Undefined, Undefined)

Next ==
    \/ \E r \in RestCfgs, h \in HomeCfgs : Mount(r, h)
    \/ FlushEffects
    \/ \E iv \in intervals : Tick(iv)
    \/ \E r \in RestCfgs, h \in HomeCfgs : SetProps(r, h)
    \/ Unmount
    \/ AdvanceClock

Spec == Init /\ [][Next]_vars

\* WorkTimerApp: the persisted configuration and the modal
InitApp ==
    /\ TimerInit
    /\ impl = "part_001"
    /\ AppInit
    /\ storage \in StorageValues

NextApp ==
    \/ LoadEffect
    \/ OpenModal
    \/ \E v \in DraftValues : SetRest(v)
    \/ \E v \in DraftValues : SetHome(v)
    \/ ModalSave
    \/ ModalCancel
    \/ Reload

SpecApp == InitApp /\ [][NextApp]_vars

----------------------------------------------------------------------------
\* Properties

TimeOfDay(cfg) == cfg.hours * 3600 + cfg.minutes * 60
DateStart(d) == (d \div SecPerDay) * SecPerDay

\* C1: every snapshot (the initial state and every tick) has isCompleted
\* exactly when its now has reached its now's date at hours:minutes:00 of
\* the TimeCfg it was computed with, and a completed snapshot reads 00:00:00.
C1_CompletedIffReached ==
    mounted =>
        \A s \in Hooks :
            LET st == state[s]
                target == DateStart(st.nowWita) + TimeOfDay(EvalCfg(s))
            IN /\ EvalCfg(s).hours \in 0 .. 23
               /\ EvalCfg(s).minutes \in 0 .. 59
               /\ st.targetToday = target
               /\ st.isCompleted <=> st.nowWita >= target
               /\ st.isCompleted => st.diffText = "00:00:00"

\* a tick's snapshot taken exactly at the target of the one hook while the
\* other hook is still counting
C1_Witness ==
    /\ mounted
    /\ \A s \in Hooks : deps[s] # NoDeps
    /\ state["istirahat"].isCompleted
    /\ state["istirahat"].nowWita = state["istirahat"].targetToday
    /\ ~state["pulang"].isCompleted

\* C2: progress lies in [0,100], is 100 in a completed snapshot, and is 0
\* when the target is the 08:00 anchor itself and has not passed.
C2_ProgressRange ==
    mounted =>
        \A s \in Hooks :
            LET st == state[s]
                p == st.progress
            IN /\ p.d >= 1
               /\ 0 <= p.n
               /\ p.n <= 100 * p.d
               /\ st.isCompleted => p = Pct(100)
               /\ (~st.isCompleted
                       /\ st.targetToday = DateStart(st.targetToday) + startHour * 3600)
                      => p = Pct(0)

\* a snapshot before an 08:00 target
C2_Witness ==
    /\ mounted
    /\ deps["istirahat"] # NoDeps
    /\ deps["istirahat"].hours = startHour
    /\ ~state["istirahat"].isCompleted
    /\ state["istirahat"].progress = Pct(0)

\* C3, as claimed: a snapshot whose now is not later than the 08:00 anchor
\* of the target's date has progress 0, whatever the TimeOfDay.
C3_Claim ==
    mounted =>
        \A s \in Hooks :
            state[s].nowWita <= DateStart(state[s].targetToday) + startHour * 3600
                => state[s].progress = Pct(0)

\* C4, as claimed: a home evaluation at a Saturday instant is against 14:00
\* of that date; the rest evaluation is against its own time; from Monday to
\* Friday the home evaluation is against the configured home time.
C4_Claim ==
    (mounted /\ ~AnyPending) =>
        /\ getDay(state["pulang"].nowWita) = 6
              => state["pulang"].targetToday
                     = DateStart(state["pulang"].nowWita) + SaturdayHour * 3600
        /\ state["istirahat"].targetToday
               = DateStart(state["istirahat"].nowWita) + TimeOfDay(restAt)
        /\ getDay(state["pulang"].nowWita) \in 1 .. 5
              => state["pulang"].targetToday
                     = DateStart(state["pulang"].nowWita) + TimeOfDay(homeAt)

\* C5, as claimed: when the instant the component shows is a Sunday, both
\* cards are the holiday card, which reads 00:00:00 and carries nothing of
\* the configured times.
C5_Claim ==
    (mounted /\ getDay(state["istirahat"].nowWita) = 0) =>
        View(impl, state, restAt, homeAt).cards = <<HolidayCard, HolidayCard>>

\* C6: a snapshot taken before its target reads the zero-padded HH:MM:SS of
\* target - now, hours within 0..23, and so never 00:00:00; at 15:59:59 with
\* a 16:00 target it reads 00:00:01.
C6_RemainingText ==
    mounted =>
        \A s \in Hooks :
            LET st == state[s]
                d == st.targetToday - st.nowWita
                h == d \div 3600
                m == (d - h * 3600) \div 60
                sec == d - h * 3600 - m * 60
            IN ~st.isCompleted =>
                  /\ d > 0
                  /\ h \in 0 .. 23 /\ m \in 0 .. 59 /\ sec \in 0 .. 59
                  /\ st.diffText = Pad2(h) \o ":" \o Pad2(m) \o ":" \o Pad2(sec)
                  /\ st.diffText # "00:00:00"
                  /\ (st.targetToday % SecPerDay = 16 * 3600 /\ d = 1)
                         => st.diffText = "00:00:01"

\* the snapshot of 15:59:59 against 16:00
C6_Witness ==
    /\ mounted
    /\ deps["pulang"] # NoDeps
    /\ state["pulang"].targetToday % SecPerDay = 16 * 3600
    /\ state["pulang"].nowWita = state["pulang"].targetToday - 1
    /\ state["pulang"].diffText = "00:00:01"
    /\ ~state["pulang"].isCompleted

\* C7, as claimed: the snapshot is a function of its now and its TimeCfg:
\* the initial-state computation and tick give it alike, whatever
\* progressToTarget's own reading of the clock.
C7_Claim ==
    mounted =>
        \A s \in Hooks :
            \A w \in SecondReading(state[s].nowWita) :
                /\ state[s] = tick(EvalCfg(s), state[s].nowWita, w)
                /\ state[s] = initialState(EvalCfg(s), state[s].nowWita, w)

\* C8: each hook has at most one live interval, the one timerRef names,
\* with the TimeCfg of the effect last run; unmounted, there is none and no
\* snapshot is held.
C8_OneInterval ==
    /\ \A s \in Hooks :
          LET mine == {iv \in intervals : iv.hook = s}
          IN /\ Cardinality(mine) <= 1
             /\ \A iv \in mine : iv.id = timerRef[s] /\ iv.cfg = deps[s]
             /\ (mounted /\ deps[s] # NoDeps) => mine # {}
    /\ ~mounted => intervals = {} /\ \A s \in Hooks : state[s] = NoState

\* Saturday in part_001: the effect of pulang has run again for the
\* override and each hook has its one interval
C8_Witness ==
    /\ mounted
    /\ impl = "part_001"
    /\ deps["pulang"].hours = SaturdayHour
    /\ deps["pulang"] # homeAt
    /\ Cardinality(intervals) = 2

\* C9: with the TimeCfg unchanged, a completed snapshot is followed on the
\* same date only by completed snapshots reading 00:00:00 at 100; every
\* snapshot is against the target of its own now's date, so a snapshot of a
\* later date is completed only if that date's target is reached.
C9_StepOk ==
    \A s \in Hooks :
        (mounted /\ mounted' /\ EvalCfg(s)' = EvalCfg(s)) =>
            /\ (state[s].isCompleted
                    /\ DayOf(state'[s].nowWita) = DayOf(state[s].nowWita))
                   => /\ state'[s].isCompleted
                      /\ state'[s].diffText = "00:00:00"
                      /\ state'[s].progress = Pct(100)
            /\ DayOf(state'[s].nowWita) > DayOf(state[s].nowWita)
                   => /\ state'[s].targetToday
                             = DateStart(state'[s].nowWita) + TimeOfDay(EvalCfg(s))
                      /\ state'[s].isCompleted
                             <=> state'[s].nowWita >= state'[s].targetToday
\* C9: every step keeps a completed snapshot completed until its date
\* changes and puts a later date's snapshot against that date's target.
C9_CompletedUntilMidnight == [][C9_StepOk]_vars

\* a completed snapshot taken after the target, on the day after the mount
C9_Witness ==
    /\ mounted
    /\ deps["istirahat"] # NoDeps
    /\ state["istirahat"].isCompleted
    /\ state["istirahat"].nowWita > state["istirahat"].targetToday
    /\ DayOf(state["istirahat"].nowWita) = 6
    /\ ~state["pulang"].isCompleted

\* C10, as claimed: the load effect leaves the defaults and an open modal
\* when the record cannot be read or parsed, an open modal when none is
\* persisted, and when the record parses, the record with each field not
\* matching HH:MM replaced by its default and the modal closed; it always
\* leaves the loading state.
C10_FieldsKept ==
    /\ userCfg'.rest = IF isValidTimeStr(storage.rest) THEN storage.rest ELSE T1130
    /\ userCfg'.home = IF isValidTimeStr(storage.home) THEN storage.home ELSE T1600
C10_ClaimStep ==
    (loading /\ ~loading') =>
        /\ storage.kind \in {"unavailable", "garbage"}
              => userCfg' = DefaultUserCfg /\ showModal'
        /\ storage.kind \in {"none", "empty"}
              => userCfg' = DefaultUserCfg /\ showModal'
        /\ storage.kind \in {"json-null", "json-scalar", "json-object"}
              => C10_FieldsKept /\ ~showModal'
C10_AmendedStep ==
    (loading /\ ~loading') =>
        /\ storage.kind \in {"unavailable", "garbage", "json-null"}
              => userCfg' = DefaultUserCfg /\ showModal'
        /\ storage.kind \in {"none", "empty"}
              => userCfg' = DefaultUserCfg /\ showModal'
        /\ storage.kind \in {"json-scalar", "json-object"}
              => C10_FieldsKept /\ ~showModal'
C11_TimeOfDayInRange ==
    ~loading =>
        /\ isValidTimeStr(userCfg.rest)
        /\ isValidTimeStr(userCfg.home)
        /\ ~crashed =>
              /\ userCfg.rest.type = "string" /\ userCfg.home.type = "string"
              /\ restAtProp.hours \in 0 .. 23 /\ restAtProp.minutes \in 0 .. 59
              /\ homeAtProp.hours \in 0 .. 23 /\ homeAtProp.minutes \in 0 .. 59
              /\ userCfg.rest = T9999 => TimeOfDay(restAtProp) = 23 * 3600 + 59 * 60
              /\ userCfg.home = T9999 => TimeOfDay(homeAtProp) = 23 * 3600 + 59 * 60

\* "99:99" saved in the modal as the rest time over a stored record whose
\* home field was replaced by its default, and rendered
C11_Witness ==
    /\ ~loading /\ ~crashed
    /\ ~showModal
    /\ userCfg = [rest |-> T9999, home |-> T1600]
    /\ storage = Raw("json-object", T9999, T1600)
    /\ restAtProp.hours = 23 /\ restAtProp.minutes = 59

\* C12, as claimed: a save with a draft that does not match HH:MM sets the
\* error message and leaves the active configuration, the persisted record,
\* the drafts and the open modal as they were; a save with two matching
\* drafts makes them the active configuration, writes exactly that record,
\* closes the modal, and a later startup loads the same configuration.
C12_ClaimStep ==
    ModalSave =>
        IF ~isValidTimeStr(draft.rest) \/ ~isValidTimeStr(draft.home)
        THEN /\ err' = ErrFormat
             /\ UNCHANGED <<userCfg, storage, showModal, draft>>
        ELSE /\ userCfg' = [rest |-> draft.rest, home |-> draft.home]
             /\ storage' = Raw("json-object", draft.rest, draft.home)
             /\ ~showModal'
             /\ loadedCfg(storage') = userCfg'
             /\ ~loadedShowModal(storage')
\* C12, as claimed: every press of save ends as C12_ClaimStep says.
C12_Claim == [][C12_ClaimStep]_vars

\* C13, as claimed: in every rendered state that shows the home countdown
\* card, the time in its badge is the time of day of the target the shown
\* home snapshot was computed against, and the home snapshot's date is the
\* date the day-of-week decision was taken from (the rest snapshot's).
C13_BadgeIsTarget ==
    LET tod == state["pulang"].targetToday % SecPerDay
    IN View(impl, state, restAt, homeAt).cards[2].badge
           = formatBadgeTime(tod \div 3600, (tod % 3600) \div 60)
C13_SameDate ==
    toDateString(state["pulang"].nowWita) = toDateString(state["istirahat"].nowWita)
C13_Claim ==
    (mounted /\ ~View(impl, state, restAt, homeAt).cards[2].holiday) =>
        C13_BadgeIsTarget /\ C13_SameDate

\* C14, as claimed: the progress of every snapshot is the value of
\* progressToTarget at the snapshot's own now, so with a target after the
\* 08:00 anchor a snapshot that is not completed and whose remaining text
\* is not 00:00:00 has progress below 100.
C14_Claim ==
    mounted =>
        \A s \in Hooks :
            LET st == state[s]
            IN ~st.isCompleted =>
                  /\ st.progress = progressToTarget(st.targetToday, st.nowWita)
                  /\ (st.targetToday > setHours(st.targetToday, startHour, 0)
                          /\ st.diffText # "00:00:00")
                         => st.progress.n < 100 * st.progress.d

====
